---- MODULE Spec2Model ----
(***************************************************************************)
(* Model of the wf-wifi-forensics classification pipeline                  *)
(* (src/wf/analysis/classifier.py, src/wf/utils/geo.py,                    *)
(* src/wf/storage/dao.py).                                                 *)
(*                                                                         *)
(* Units.  Python floats are modelled in fixed point:                      *)
(*   lat, lon   integers, 1e-5 degree                                      *)
(*   distances  integers, centimetres                                      *)
(*   ts         integers, seconds                                          *)
(*   weights    10 ** (rssi / 10) in units of 1e-5 (rssi = -50 gives 1),   *)
(*              with a flag for the weights so large that w / 1e-12        *)
(*              overflows a double to inf.                                 *)
(* All observations lie on one meridian (lon = 0), where the haversine     *)
(* formula reduces to r * |d_phi|.                                         *)
(***************************************************************************)
EXTENDS Integers, Sequences, FiniteSets, TLC

VARIABLES
    observations,   \* rows of the observations table, in the order of a scan
    static_ap,      \* committed contents of table static_ap, or Absent
    mobile_track,   \* committed contents of table mobile_track, or Absent
    start_static,   \* static_ap as it was when run() started
    start_mobile,   \* mobile_track as it was when run() started
    cfg,            \* the ClassifierConfig of the pipeline
    pc,             \* position of run()
    err,            \* "none", or the kind of exception that ended run()
    obs,            \* run(): obs
    wins,           \* run(): wins
    stat_wins,      \* run(): stat_wins
    mob_wins,       \* run(): mob_wins
    static_rows,    \* run(): static_rows (growing inside _aggregate_static)
    mobile_rows,    \* run(): mobile_rows
    agg,            \* _aggregate_static: per-MAC window summaries
    agg_i,          \* _aggregate_static: index of the MAC being processed
    gm_x,           \* geometric_median: x_lat, or NaN
    run,            \* number of the call of run() on this store
    prev_static,    \* static_rows returned to the previous call of run()
    prev_mobile,    \* mobile_rows returned to the previous call of run()
    ingest          \* cli.ingest on the store: its position and the raw tables

vars == <<observations, static_ap, mobile_track, start_static, start_mobile,
          cfg, pc, err, obs, wins, stat_wins, mob_wins, static_rows,
          mobile_rows, agg, agg_i, gm_x, run, prev_static, prev_mobile,
          ingest>>

----------------------------------------------------------------------------
(* Bounds of the model *)

MaxObs == 3
MaxObsFair == 2
MaxRuns == 2
MaxIngests == 3

MACS == {"AA", "BB"}
TS == {0, 5, 30, 150}
LATS == {0, 90, 320}
RSSIS == {-50, -40}
\* An rssi whose weight 10 ** (rssi / 10) = 1e300 is finite, while
\* w / 1e-12 is not.
HUGE_RSSIS == {3000}
\* An rssi whose weight 10 ** (rssi / 10) = 1e-330 underflows to 0.0.
ZERO_RSSIS == {-3300}
\* Stands for rssi = None: the column is nullable and Obs.rssi takes what
\* the row holds.
NULL_RSSIS == {-99999}
\* Stands for lat = NULL or lon = NULL: both columns are nullable.
NULL_COORDS == {-99999}

----------------------------------------------------------------------------
(* Configuration: src/wf/analysis/config.py *)

\* ClassifierConfig.driving(): the defaults, metres in centimetres.
\* max_speed_ms = 200e3 / 3600 = 500 / 9 m/s is kept as the fraction
\* speed_num / speed_den (cm/s).
Driving ==
    [t_max_gap      |-> 120,
     min_window_len |-> 1,
     r_stationary   |-> 35000,
     mobile_decim_d |-> 10000,
     mobile_decim_t |-> 30,
     speed_num      |-> 50000,
     speed_den      |-> 9]

CONFIGS == {Driving}

\* ClassifierConfig.walking(): max_speed_ms = 8000 / 3600 = 20 / 9 m/s.
Walking ==
    [t_max_gap      |-> 60,
     min_window_len |-> 1,
     r_stationary   |-> 5000,
     mobile_decim_d |-> 1000,
     mobile_decim_t |-> 5,
     speed_num      |-> 2000,
     speed_den      |-> 9]

\* ClassifierConfig(min_window_len=2): the defaults, with windows of at
\* least two points.
Pairs == [Driving EXCEPT !.min_window_len = 2]

ALL_CONFIGS == {Driving, Walking, Pairs}

----------------------------------------------------------------------------
(* Helpers *)

Abs(x) == IF x < 0 THEN -x ELSE x

Range(s) == {s[i] : i \in DOMAIN s}

RECURSIVE SumSeq(_)
SumSeq(s) == IF s = <<>> THEN 0 ELSE Head(s) + SumSeq(Tail(s))

RECURSIVE Concat(_)
Concat(ss) == IF ss = <<>> THEN <<>> ELSE Head(ss) \o Concat(Tail(ss))

\* A float quotient of two non-negative numbers: rounded to the nearest.
RDiv(a, b) == (2 * a + b) \div (2 * b)

MinOf(S) == CHOOSE x \in S : \A y \in S : x <= y
MaxOf(S) == CHOOSE x \in S : \A y \in S : x >= y

\* All orderings of a finite set, as sequences without repetition.
Perms(S) ==
    {s \in [1..Cardinality(S) -> S] : \A i, j \in DOMAIN s : i # j => s[i] # s[j]}

\* dict insertion order: the distinct keys of a sequence, by first occurrence.
RECURSIVE KeyOrder(_, _)
KeyOrder(keys, seen) ==
    IF keys = <<>> THEN <<>>
    ELSE IF Head(keys) \in seen THEN KeyOrder(Tail(keys), seen)
    ELSE <<Head(keys)>> \o KeyOrder(Tail(keys), seen \cup {Head(keys)})

\* sorted(points, key=lambda o: o.ts): stable, ascending.
RECURSIVE InsertByTs(_, _)
InsertByTs(s, o) ==
    IF s = <<>> THEN <<o>>
    ELSE IF o.ts < Head(s).ts THEN <<o>> \o s
    ELSE <<Head(s)>> \o InsertByTs(Tail(s), o)

\* Variant: the points are left in the order of the scan.
SortByTs_Unsorted(s) == s

RECURSIVE SortByTs(_)
SortByTs(s) ==
    IF s = <<>> THEN <<>>
    ELSE InsertByTs(SortByTs(SubSeq(s, 1, Len(s) - 1)), s[Len(s)])

----------------------------------------------------------------------------
(* Geodesy: src/wf/utils/geo.py *)

\* haversine(a, b) for two points of one meridian: r * |d_phi| with
\* r = 6371000 m, that is 111.19 cm per 1e-5 degree.
haversine(a, b) ==
    LET d == Abs(a - b) IN d * 111 + (d * 19) \div 100

----------------------------------------------------------------------------
(* Pass 1: ClassifierPipeline._windowize *)

Win(mac, points) ==
    [mac |-> mac, ts_start |-> points[1].ts, ts_end |-> points[Len(points)].ts,
     points |-> points]

\* Variant: the buffer is emitted whatever its length.
CloseWin_Always(c, mac, cur_pts) == <<Win(mac, cur_pts)>>

\* The closing test of a buffer: emitted iff it is long enough.
CloseWin(c, mac, cur_pts) ==
    IF Len(cur_pts) >= c.min_window_len THEN <<Win(mac, cur_pts)>> ELSE <<>>

\* Variant: a gap of exactly t_max_gap does not split.
GapSplits_Strict(c, prev, curr) == curr.ts - prev.ts > c.t_max_gap

\* The gap test between consecutive sorted points.
GapSplits(c, prev, curr) == curr.ts - prev.ts >= c.t_max_gap

\* The walk over zip(pts, pts[1:]) from index i, with the current buffer.
RECURSIVE WalkWindows(_, _, _, _, _)
WalkWindows(c, mac, pts, i, cur_pts) ==
    IF i > Len(pts) THEN CloseWin(c, mac, cur_pts)
    ELSE IF GapSplits(c, pts[i - 1], pts[i])
         THEN CloseWin(c, mac, cur_pts) \o WalkWindows(c, mac, pts, i + 1, <<pts[i]>>)
         ELSE WalkWindows(c, mac, pts, i + 1, Append(cur_pts, pts[i]))

WindowsOfMac(c, o, mac) ==
    LET pts == SortByTs(SelectSeq(o, LAMBDA p : p.mac = mac))
    IN  WalkWindows(c, mac, pts, 2, <<pts[1]>>)

_windowize(c, o) ==
    LET macs == KeyOrder([i \in DOMAIN o |-> o[i].mac], {})
    IN  Concat([k \in DOMAIN macs |-> WindowsOfMac(c, o, macs[k])])

----------------------------------------------------------------------------
(* Pass 2: ClassifierPipeline._split_stationary *)

\* Variant: the distance from the first point to the last one.
MaxPairDist_EndsOnly(pts, i, j, maxd) ==
    haversine(pts[1].lat, pts[Len(pts)].lat)

\* The double loop over i < j keeping the running maximum maxd.
RECURSIVE MaxPairDist(_, _, _, _)
MaxPairDist(pts, i, j, maxd) ==
    IF i > Len(pts) THEN maxd
    ELSE IF j > Len(pts) THEN MaxPairDist(pts, i + 1, i + 2, maxd)
    ELSE LET d == haversine(pts[i].lat, pts[j].lat)
         IN  MaxPairDist(pts, i, j + 1, IF d > maxd THEN d ELSE maxd)

IsStationary(c, w) == MaxPairDist(w.points, 1, 2, 0) <= c.r_stationary

\* Variant: without the else, every window is appended to mob_wins.
_split_stationary_NoElse(c, ws) ==
    [stat |-> SelectSeq(ws, LAMBDA w : IsStationary(c, w)),
     mob  |-> ws]

_split_stationary(c, ws) ==
    [stat |-> SelectSeq(ws, LAMBDA w : IsStationary(c, w)),
     mob  |-> SelectSeq(ws, LAMBDA w : ~IsStationary(c, w))]

----------------------------------------------------------------------------
(* Pass 3A: ClassifierPipeline._aggregate_static and geometric_median *)

\* A float of geometric_median: the number v, or NaN.
Num(v) == [nan |-> FALSE, v |-> v]
NaN == [nan |-> TRUE, v |-> 0]

RECURSIVE Pow10(_)
Pow10(k) == IF k <= 0 THEN 1 ELSE 10 * Pow10(k - 1)

\* What 10 ** (p.rssi / 10) does: TypeError for None, OverflowError above
\* the largest double (1.8e308), else a float.
WeightError(rssi) ==
    IF rssi \in NULL_RSSIS THEN "TypeError"
    ELSE IF rssi >= 3090 THEN "OverflowError"
    ELSE "none"

\* 10 ** (p.rssi / 10): the mantissa m in units of 1e-5, or in units of
\* 1e300 when huge (w / 1e-12 overflows from 1.8e296 on); 0.0 below the
\* smallest double (4.9e-324).
Weight(rssi) ==
    IF rssi >= 2970
    THEN [m |-> Pow10((rssi - 3000) \div 10), huge |-> TRUE]
    ELSE IF rssi <= -3240
    THEN [m |-> 0, huge |-> FALSE]
    ELSE [m |-> Pow10((rssi + 50) \div 10), huge |-> FALSE]

\* The terms that survive a float sum: next to a huge term the others are
\* rounded away.
Eff(ws) ==
    IF \E i \in DOMAIN ws : ws[i].huge
    THEN {i \in DOMAIN ws : ws[i].huge}
    ELSE DOMAIN ws

RECURSIVE SumOver(_, _)
SumOver(f, I) ==
    IF I = {} THEN 0
    ELSE LET i == CHOOSE k \in I : TRUE IN f[i] + SumOver(f, I \ {i})

RECURSIVE ProdOver(_, _)
ProdOver(f, I) ==
    IF I = {} THEN 1
    ELSE LET i == CHOOSE k \in I : TRUE IN f[i] * ProdOver(f, I \ {i})

\* sum(weights)
WSum(ws) ==
    [m |-> SumOver([i \in DOMAIN ws |-> ws[i].m], Eff(ws)),
     huge |-> \E i \in DOMAIN ws : ws[i].huge]

\* sum(w * x for ...) / sum(w)
WMean(ws, xs) ==
    RDiv(SumOver([i \in DOMAIN ws |-> ws[i].m * xs[i]], Eff(ws)),
         SumOver([i \in DOMAIN ws |-> ws[i].m], Eff(ws)))

\* The exception of step 1 on the window w, if any: the list of weights is
\* built first (line 134), the division by tot_w comes after (line 136).
RECURSIVE FirstWeightError(_, _)
FirstWeightError(points, i) ==
    IF i > Len(points) THEN "none"
    ELSE IF WeightError(points[i].rssi) # "none" THEN WeightError(points[i].rssi)
    ELSE FirstWeightError(points, i + 1)

WinError(w) ==
    IF FirstWeightError(w.points, 1) # "none" THEN FirstWeightError(w.points, 1)
    ELSE IF \A i \in DOMAIN w.points : Weight(w.points[i].rssi).m = 0
    THEN "ZeroDivisionError"
    ELSE "none"

\* The exception that ends step 1 over the windows sw[i..], if any.
RECURSIVE AggError(_, _)
AggError(sw, i) ==
    IF i > Len(sw) THEN "none"
    ELSE IF WinError(sw[i]) # "none" THEN WinError(sw[i])
    ELSE AggError(sw, i + 1)

\* Variant: the window counts its distinct timestamps.
WinSummary_UniqueTs(w) ==
    LET wts == [i \in DOMAIN w.points |-> Weight(w.points[i].rssi)]
    IN  [mac   |-> w.mac,
         lat_c |-> WMean(wts, [i \in DOMAIN w.points |-> w.points[i].lat]),
         lon_c |-> WMean(wts, [i \in DOMAIN w.points |-> w.points[i].lon]),
         tot_w |-> WSum(wts),
         ts0   |-> w.ts_start,
         ts1   |-> w.ts_end,
         n     |-> Cardinality({w.points[i].ts : i \in DOMAIN w.points})]

\* Step 1 of _aggregate_static for one window: weights and weighted centroid.
WinSummary(w) ==
    LET wts == [i \in DOMAIN w.points |-> Weight(w.points[i].rssi)]
    IN  [mac   |-> w.mac,
         lat_c |-> WMean(wts, [i \in DOMAIN w.points |-> w.points[i].lat]),
         lon_c |-> WMean(wts, [i \in DOMAIN w.points |-> w.points[i].lon]),
         tot_w |-> WSum(wts),
         ts0   |-> w.ts_start,
         ts1   |-> w.ts_end,
         n     |-> Len(w.points)]

\* Variant: one entry per stationary window instead of one per MAC.
Collapse_PerWindow(sw) ==
    [k \in DOMAIN sw |->
        LET x == WinSummary(sw[k])
        IN  [mac     |-> x.mac,
             centers |-> <<x.lat_c>>,
             lons    |-> <<x.lon_c>>,
             wts     |-> <<x.tot_w>>,
             ts0     |-> <<x.ts0>>,
             ts1     |-> <<x.ts1>>,
             n_obs   |-> x.n]]

\* The five dictionaries of step 1, per MAC in insertion order.
Collapse(sw) ==
    LET sums == [i \in DOMAIN sw |-> WinSummary(sw[i])]
        macs == KeyOrder([i \in DOMAIN sw |-> sw[i].mac], {})
        of(mac) == SelectSeq(sums, LAMBDA x : x.mac = mac)
    IN  [k \in DOMAIN macs |->
           LET mine == of(macs[k])
           IN  [mac     |-> macs[k],
                centers |-> [i \in DOMAIN mine |-> mine[i].lat_c],
                lons    |-> [i \in DOMAIN mine |-> mine[i].lon_c],
                wts     |-> [i \in DOMAIN mine |-> mine[i].tot_w],
                ts0     |-> [i \in DOMAIN mine |-> mine[i].ts0],
                ts1     |-> [i \in DOMAIN mine |-> mine[i].ts1],
                n_obs   |-> SumSeq([i \in DOMAIN mine |-> mine[i].n])]]

\* geometric_median, the start: the weighted centroid.
GMStart(centers, wts) == Num(WMean(wts, centers))

\* geometric_median, one pass of the while loop: (new_lat) from (x_lat).
\* d = max(haversine, 1e-12) and inv = w / d; the largest class of inv
\* decides the quotient, the smaller ones are rounded away:
\*   a huge weight at distance 1e-12: inv = inf, num / denom = NaN;
\*   huge weights further away: they alone count;
\*   an ordinary weight at distance 1e-12: new = x (to 1e-11 m);
\*   otherwise the exact quotient.
GMNew(centers, wts, x) ==
    IF x.nan THEN NaN
    ELSE
    LET d == [i \in DOMAIN centers |-> haversine(x.v, centers[i])]
        clamped == {i \in DOMAIN centers : d[i] = 0}
        I == Eff(wts)
        num == SumOver([i \in DOMAIN centers |->
                    wts[i].m * centers[i] * ProdOver(d, I \ {i})], I)
        den == SumOver([i \in DOMAIN centers |->
                    wts[i].m * ProdOver(d, I \ {i})], I)
    IN  IF \E i \in clamped : wts[i].huge THEN NaN
        ELSE IF (\E i \in DOMAIN wts : wts[i].huge) THEN Num(RDiv(num, den))
        ELSE IF clamped # {} THEN x
        ELSE Num(RDiv(num, den))

\* haversine((x_lat, x_lon), (new_lat, new_lon)) < eps, eps = 1e-6 m
\* = 1 / 10000 cm; a comparison with NaN is false.
StepBelowEps(x, new) ==
    /\ ~x.nan
    /\ ~new.nan
    /\ haversine(x.v, new.v) * 10000 < 1

\* loc_err = sum(w * e) / total_w
LocErr(centers, wts, med) ==
    WMean(wts, [i \in DOMAIN centers |-> haversine(med, centers[i])])

\* Variant: the two time dictionaries taken for each other.
StaticRow_SwappedSpan(a, med) ==
    [mac         |-> a.mac,
     lat_mean    |-> med,
     lon_mean    |-> WMean(a.wts, a.lons),
     loc_error_m |-> LocErr(a.centers, a.wts, med),
     first_seen  |-> MinOf(Range(a.ts1)),
     last_seen   |-> MaxOf(Range(a.ts0)),
     n_obs       |-> a.n_obs]

\* The tuple appended to static_rows.
StaticRow(a, med) ==
    [mac         |-> a.mac,
     lat_mean    |-> med,
     lon_mean    |-> WMean(a.wts, a.lons),
     loc_error_m |-> LocErr(a.centers, a.wts, med),
     first_seen  |-> MinOf(Range(a.ts0)),
     last_seen   |-> MaxOf(Range(a.ts1)),
     n_obs       |-> a.n_obs]

----------------------------------------------------------------------------
(* Pass 3B+4: ClassifierPipeline._decimate_mobile *)

MobileTrackPoint(p) == [mac |-> p.mac, ts |-> p.ts, lat |-> p.lat, lon |-> p.lon]

\* Variant: the keep-condition without its test of the time.
KeepCond_DistanceOnly(c, last, curr) ==
    haversine(last.lat, curr.lat) >= c.mobile_decim_d

\* The two tests of _decimate_track on curr against last.
KeepCond(c, last, curr) ==
    \/ haversine(last.lat, curr.lat) >= c.mobile_decim_d
    \/ curr.ts - last.ts >= c.mobile_decim_t

\* Variant: the limit of 200 km/h taken as 200 m/s.
SpeedOk_KmhAsMs(c, last, curr) ==
    LET dt == curr.ts - last.ts
        d  == haversine(last.lat, curr.lat)
    IN  d <= 20000 * (IF dt > 1 THEN dt ELSE 1)

\* Variant: no speed gate.
SpeedOk_NoGate(c, last, curr) == TRUE

\* The speed gate: d / max(dt, 1) <= max_speed_ms.
SpeedOk(c, last, curr) ==
    LET dt == curr.ts - last.ts
        d  == haversine(last.lat, curr.lat)
    IN  d * c.speed_den <= c.speed_num * (IF dt > 1 THEN dt ELSE 1)

\* Variant: `last = curr` after the keep-condition, whatever the speed.
RECURSIVE DecimateFrom_LastAlways(_, _, _, _)
DecimateFrom_LastAlways(c, points, i, last) ==
    IF i > Len(points) THEN <<>>
    ELSE IF KeepCond(c, last, points[i])
         THEN (IF SpeedOk(c, last, points[i])
               THEN <<MobileTrackPoint(points[i])>> ELSE <<>>)
                  \o DecimateFrom_LastAlways(c, points, i + 1, points[i])
         ELSE DecimateFrom_LastAlways(c, points, i + 1, last)

\* The loop of _decimate_track over points[i..], with `last`.
RECURSIVE DecimateFrom(_, _, _, _)
DecimateFrom(c, points, i, last) ==
    IF i > Len(points) THEN <<>>
    ELSE IF KeepCond(c, last, points[i]) /\ SpeedOk(c, last, points[i])
         THEN <<MobileTrackPoint(points[i])>>
                  \o DecimateFrom(c, points, i + 1, points[i])
         ELSE DecimateFrom(c, points, i + 1, last)

_decimate_track(c, points) ==
    IF points = <<>> THEN <<>>
    ELSE <<MobileTrackPoint(points[1])>> \o DecimateFrom(c, points, 2, points[1])

\* pts_by_mac[mac], sorted by ts.
MobilePoints(mw, mac) ==
    SortByTs(Concat([i \in DOMAIN mw |->
                 IF mw[i].mac = mac THEN mw[i].points ELSE <<>>]))

\* Variant: every decimated track is emitted.
Qualified_Any(decimated) == decimated

\* The qualification: a track of fewer than 2 points is left out.
Qualified(decimated) == IF Len(decimated) >= 2 THEN decimated ELSE <<>>

_decimate_mobile(c, mw) ==
    LET macs == KeyOrder([i \in DOMAIN mw |-> mw[i].mac], {})
    IN  Concat([k \in DOMAIN macs |->
                  Qualified(_decimate_track(c, MobilePoints(mw, macs[k])))])

----------------------------------------------------------------------------
(* The four passes as one function of the loaded rows *)

\* geometric_median from the iterate x on: the value returned, or NaN when
\* the loop is left with an iterate it never returns from.
RECURSIVE GMRun(_, _, _)
GMRun(centers, wts, x) ==
    LET new == GMNew(centers, wts, x)
    IN  IF StepBelowEps(x, new) THEN new
        ELSE IF new.nan THEN NaN
        ELSE GMRun(centers, wts, new)

geometric_median(centers, wts) == GMRun(centers, wts, GMStart(centers, wts))

\* _aggregate_static: the rows returned, or the exception raised, or "hang".
_aggregate_static(sw) ==
    IF AggError(sw, 1) # "none" THEN [err |-> AggError(sw, 1), rows |-> <<>>]
    ELSE LET a   == Collapse(sw)
             med == [k \in DOMAIN a |-> geometric_median(a[k].centers, a[k].wts)]
         IN  IF \E k \in DOMAIN a : med[k].nan
             THEN [err |-> "hang", rows |-> <<>>]
             ELSE [err |-> "none",
                   rows |-> [k \in DOMAIN a |-> StaticRow(a[k], med[k].v)]]

\* run() up to the writer, on the loaded rows o.
Classify(c, o) ==
    LET sp == _split_stationary(c, _windowize(c, o))
        ag == _aggregate_static(sp.stat)
    IN  [err    |-> ag.err,
         static |-> ag.rows,
         mobile |-> IF ag.err = "none" THEN _decimate_mobile(c, sp.mob) ELSE <<>>]

----------------------------------------------------------------------------
(* The store: src/wf/storage/dao.py *)

\* A table of the store: its rows, or no table at all.
Table(rows) == [exists |-> TRUE, rows |-> rows]
Absent == [exists |-> FALSE, rows |-> {}]

\* INSERT ... ON CONFLICT(mac) DO UPDATE, row by row.
RECURSIVE UpsertStatic(_, _)
UpsertStatic(table, rows) ==
    IF rows = <<>> THEN table
    ELSE UpsertStatic({r \in table : r.mac # Head(rows).mac} \cup {Head(rows)},
                      Tail(rows))

\* INSERT OR REPLACE on the key (mac, ts), row by row.
RECURSIVE ReplaceMobile(_, _)
ReplaceMobile(table, rows) ==
    IF rows = <<>> THEN table
    ELSE ReplaceMobile({r \in table : ~(r.mac = Head(rows).mac /\ r.ts = Head(rows).ts)}
                           \cup {Head(rows)},
                       Tail(rows))

\* The rows an earlier run may have left behind.
StaleStatic ==
    {[mac |-> "AA", lat_mean |-> 90, lon_mean |-> 0, loc_error_m |-> 0,
      first_seen |-> 0, last_seen |-> 5, n_obs |-> 2]}

StaleMobile ==
    {[mac |-> "BB", ts |-> 0, lat |-> 0, lon |-> 0],
     [mac |-> "BB", ts |-> 30, lat |-> 320, lon |-> 0]}

\* The rows the observations table may hold.  The second MAC and the
\* second rssi take part of the grid only; one row has no lat, one no lon.
ObsUniverse ==
    {o \in [mac : MACS, ts : TS, lat : LATS, lon : {0},
              rssi : RSSIS \cup HUGE_RSSIS \cup ZERO_RSSIS \cup NULL_RSSIS] :
        /\ o.rssi \notin {-50} => (o.mac = "AA" /\ o.lat = 0)
        /\ o.rssi \in HUGE_RSSIS \cup ZERO_RSSIS \cup NULL_RSSIS => o.ts = 0
        /\ o.mac = "BB" => (o.ts \in {0, 150} /\ o.lat \in {0, 320})}
    \cup [mac : {"AA"}, ts : {0}, lat : NULL_COORDS, lon : {0}, rssi : {-50}]
    \cup [mac : {"AA"}, ts : {5}, lat : {0}, lon : NULL_COORDS, rssi : {-50}]

\* The sets of at most n rows.
RECURSIVE SetsUpTo(_)
SetsUpTo(n) ==
    IF n = 0 THEN {{}}
    ELSE LET P == SetsUpTo(n - 1) IN P \cup {s \cup {o} : s \in P, o \in ObsUniverse}

\* A stored row with both coordinates.
HasCoords(r) == r.lat \notin NULL_COORDS /\ r.lon \notin NULL_COORDS

\* The sequences of at most n rows of the set U.
SeqsUpTo(U, n) == UNION {[1..k -> U] : k \in 0..n}

\* The table: up to MaxObs rows, in the order a scan returns them.  Nothing
\* in the schema keeps two rows from holding the same values.
Inputs == SeqsUpTo(ObsUniverse, MaxObs)

\* Variant: SELECT without DISTINCT.
_load_and_normalize_NoDistinct(rows) ==
    SelectSeq(rows, LAMBDA r : r.lat \notin NULL_COORDS /\ r.lon \notin NULL_COORDS)

\* _load_and_normalize: SELECT DISTINCT mac, ts, lat, lon, rssi ... WHERE lat
\* IS NOT NULL AND lon IS NOT NULL, without ORDER BY: each distinct row once,
\* in the order of the scan.
_load_and_normalize(rows) ==
    KeyOrder(SelectSeq(rows, LAMBDA r : r.lat \notin NULL_COORDS
                                       /\ r.lon \notin NULL_COORDS), {})

----------------------------------------------------------------------------
(* cli.ingest: the source directory and the raw tables *)

\* The .kismet files a source directory may hold; copy.kismet has the bytes
\* of a.kismet.
FILES == {"a.kismet", "b.kismet", "copy.kismet"}

\* _compute_sha256: the digest of the bytes of a file.
_compute_sha256(f) == IF f = "b.kismet" THEN "sha_b" ELSE "sha_a"

\* The directories: one to three of the files, in the order of os.walk.
DIRS == UNION {Perms(S) : S \in (SUBSET FILES) \ {{}}}

\* parse_kismet: the records the three generators yield for a file.
DevicesOf(f) == IF f = "b.kismet" THEN {"AA", "BB"} ELSE {"AA"}

ObservationsOf(f) ==
    IF f = "b.kismet"
    THEN {[mac |-> "AA", ts |-> 30], [mac |-> "BB", ts |-> 5]}
    ELSE {[mac |-> "AA", ts |-> 0], [mac |-> "AA", ts |-> 5]}

PathsOf(f) ==
    IF f = "b.kismet"
    THEN {[ts |-> 5, lat |-> 90], [ts |-> 30, lat |-> 320]}
    ELSE {[ts |-> 0, lat |-> 0], [ts |-> 5, lat |-> 0]}

\* The raw tables of an empty store.
EmptyTables ==
    [sessions |-> {}, devices |-> {}, observations |-> {}, drive_path |-> {}]

\* The four raw tables of the store.
RawTables(g) ==
    [sessions     |-> g.sessions,
     devices      |-> g.devices,
     observations |-> g.observations,
     drive_path   |-> g.drive_path]

\* The store before any ingest, and no ingest running.
NoIngest ==
    [pc           |-> "idle",
     dir          |-> <<>>,
     i            |-> 1,
     n            |-> 0,
     sessions     |-> {},
     devices      |-> {},
     observations |-> {},
     drive_path   |-> {},
     paths_stored |-> {},
     prev         |-> [returned |-> FALSE, tables |-> EmptyTables]]

----------------------------------------------------------------------------
(* run() *)

\* The state of a pipeline that is constructed and about to run.
InitRun ==
    /\ \/ static_ap = Table({}) /\ mobile_track = Table({})
       \/ static_ap = Table(StaleStatic) /\ mobile_track = Table(StaleMobile)
    /\ start_static = static_ap
    /\ start_mobile = mobile_track
    /\ pc = "load"
    /\ err = "none"
    /\ obs = <<>>
    /\ wins = <<>>
    /\ stat_wins = <<>>
    /\ mob_wins = <<>>
    /\ static_rows = <<>>
    /\ mobile_rows = <<>>
    /\ agg = <<>>
    /\ agg_i = 0
    /\ gm_x = Num(0)
    /\ run = 1
    /\ prev_static = <<>>
    /\ prev_mobile = <<>>

\* The rows of the runs under every configuration: one MAC over part of
\* the grid, an observation of the second MAC and an observation with a
\* null rssi.
ObsFew ==
    {o \in ObsUniverse :
        /\ HasCoords(o)
        /\ o.ts \in {0, 5, 150}
        /\ o.rssi \in RSSIS \cup NULL_RSSIS
        /\ o.mac = "BB" => (o.ts = 0 /\ o.lat = 0)}

\* One MAC driving north, seen every 60 s about 66 m further on, with a
\* GPS glitch ten degrees away at ts = 120.
GLITCH_TRACK ==
    {[mac |-> "AA", ts |-> 0,   lat |-> 0,       lon |-> 0, rssi |-> -50],
     [mac |-> "AA", ts |-> 60,  lat |-> 60,      lon |-> 0, rssi |-> -50],
     [mac |-> "AA", ts |-> 120, lat |-> 1000000, lon |-> 0, rssi |-> -50],
     [mac |-> "AA", ts |-> 180, lat |-> 120,     lon |-> 0, rssi |-> -50]}

ConfigInputs == SeqsUpTo(ObsFew, MaxObs)

Init ==
    /\ observations \in Inputs
    /\ cfg \in CONFIGS
    /\ ingest = NoIngest
    /\ InitRun

Load ==
    /\ pc = "load"
    /\ obs' = _load_and_normalize(observations)
    /\ pc' = "windowize"
    /\ UNCHANGED <<ingest, run, prev_static, prev_mobile, observations, static_ap, mobile_track, start_static,
                   start_mobile, cfg, err, wins, stat_wins, mob_wins,
                   static_rows, mobile_rows, agg, agg_i, gm_x>>

Windowize ==
    /\ pc = "windowize"
    /\ wins' = _windowize(cfg, obs)
    /\ pc' = "split"
    /\ UNCHANGED <<ingest, run, prev_static, prev_mobile, observations, static_ap, mobile_track, start_static,
                   start_mobile, cfg, err, obs, stat_wins, mob_wins,
                   static_rows, mobile_rows, agg, agg_i, gm_x>>

\* Variant: the derived tables are recreated as soon as the windows are
\* split, before the static rows and the track points are computed.
Split_ThenRecreate ==
    /\ pc = "split"
    /\ LET r == _split_stationary(cfg, wins)
       IN  /\ stat_wins' = r.stat
           /\ mob_wins' = r.mob
    /\ static_ap' = Table({})
    /\ mobile_track' = Table({})
    /\ pc' = "aggregate"
    /\ UNCHANGED <<ingest, run, prev_static, prev_mobile, observations,
                   start_static, start_mobile, cfg, err, obs, wins,
                   static_rows, mobile_rows, agg, agg_i, gm_x>>

Split ==
    /\ pc = "split"
    /\ LET r == _split_stationary(cfg, wins)
       IN  /\ stat_wins' = r.stat
           /\ mob_wins' = r.mob
    /\ pc' = "aggregate"
    /\ UNCHANGED <<ingest, run, prev_static, prev_mobile, observations, static_ap, mobile_track, start_static,
                   start_mobile, cfg, err, obs, wins, static_rows,
                   mobile_rows, agg, agg_i, gm_x>>

\* Variant: static_rows is not emptied before the rows are appended.
AggregateCollapse_KeepRows ==
    /\ pc = "aggregate"
    /\ AggError(stat_wins, 1) = "none"
    /\ agg' = Collapse(stat_wins)
    /\ agg_i' = 1
    /\ pc' = IF agg' = <<>> THEN "decimate" ELSE "gm_start"
    /\ UNCHANGED <<ingest, run, prev_static, prev_mobile, observations, static_ap,
                   mobile_track, start_static, start_mobile, cfg, err, obs,
                   wins, stat_wins, mob_wins, static_rows, mobile_rows, gm_x>>

\* _aggregate_static, step 1: collapse the windows; static_rows = [].
AggregateCollapse ==
    /\ pc = "aggregate"
    /\ AggError(stat_wins, 1) = "none"
    /\ agg' = Collapse(stat_wins)
    /\ agg_i' = 1
    /\ static_rows' = <<>>
    /\ pc' = IF agg' = <<>> THEN "decimate" ELSE "gm_start"
    /\ UNCHANGED <<ingest, run, prev_static, prev_mobile, observations, static_ap, mobile_track, start_static,
                   start_mobile, cfg, err, obs, wins, stat_wins, mob_wins,
                   mobile_rows, gm_x>>

\* _aggregate_static, step 1, raises: the exception leaves run().
AggregateRaise ==
    /\ pc = "aggregate"
    /\ AggError(stat_wins, 1) # "none"
    /\ err' = AggError(stat_wins, 1)
    /\ pc' = "failed"
    /\ UNCHANGED <<ingest, run, prev_static, prev_mobile, observations, static_ap,
                   mobile_track, start_static, start_mobile, cfg, obs, wins,
                   stat_wins, mob_wins, static_rows, mobile_rows, agg, agg_i,
                   gm_x>>

\* _aggregate_static, step 2, for the MAC agg[agg_i]: geometric_median is
\* entered and starts at the weighted centroid.
GMEnter ==
    /\ pc = "gm_start"
    /\ gm_x' = GMStart(agg[agg_i].centers, agg[agg_i].wts)
    /\ pc' = "gm_loop"
    /\ UNCHANGED <<ingest, run, prev_static, prev_mobile, observations, static_ap, mobile_track, start_static,
                   start_mobile, cfg, err, obs, wins, stat_wins, mob_wins,
                   static_rows, mobile_rows, agg, agg_i>>

\* One pass of `while True` in geometric_median that does not return.
GMIterate ==
    /\ pc = "gm_loop"
    /\ LET new == GMNew(agg[agg_i].centers, agg[agg_i].wts, gm_x)
       IN  /\ ~StepBelowEps(gm_x, new)
           /\ gm_x' = new
    /\ UNCHANGED <<ingest, run, prev_static, prev_mobile, observations, static_ap, mobile_track, start_static,
                   start_mobile, cfg, pc, err, obs, wins, stat_wins, mob_wins,
                   static_rows, mobile_rows, agg, agg_i>>

\* The pass that returns, and the rest of the loop body of step 2: the row
\* of the MAC is appended.
GMReturn ==
    /\ pc = "gm_loop"
    /\ LET new == GMNew(agg[agg_i].centers, agg[agg_i].wts, gm_x)
       IN  /\ StepBelowEps(gm_x, new)
           /\ gm_x' = new
           /\ static_rows' = Append(static_rows, StaticRow(agg[agg_i], new.v))
    /\ agg_i' = agg_i + 1
    /\ pc' = IF agg_i = Len(agg) THEN "decimate" ELSE "gm_start"
    /\ UNCHANGED <<ingest, run, prev_static, prev_mobile, observations, static_ap, mobile_track, start_static,
                   start_mobile, cfg, err, obs, wins, stat_wins, mob_wins,
                   mobile_rows, agg>>

\* Variant: the tracks are built from all the windows.
Decimate_AllWins ==
    /\ pc = "decimate"
    /\ mobile_rows' = _decimate_mobile(cfg, wins)
    /\ pc' = "drop_static"
    /\ UNCHANGED <<ingest, run, prev_static, prev_mobile, observations, static_ap,
                   mobile_track, start_static, start_mobile, cfg, err, obs,
                   wins, stat_wins, mob_wins, static_rows, agg, agg_i, gm_x>>

Decimate ==
    /\ pc = "decimate"
    /\ mobile_rows' = _decimate_mobile(cfg, mob_wins)
    /\ pc' = "drop_static"
    /\ UNCHANGED <<ingest, run, prev_static, prev_mobile, observations, static_ap, mobile_track, start_static,
                   start_mobile, cfg, err, obs, wins, stat_wins, mob_wins,
                   static_rows, agg, agg_i, gm_x>>

\* Variant: static_ap is not dropped.
DropStatic_Skipped ==
    /\ pc = "drop_static"
    /\ pc' = "create_static"
    /\ UNCHANGED <<ingest, run, prev_static, prev_mobile, observations, static_ap,
                   mobile_track, start_static, start_mobile, cfg, err, obs,
                   wins, stat_wins, mob_wins, static_rows, mobile_rows, agg,
                   agg_i, gm_x>>

\* _write_results -> recreate_classification_tables: four DDL statements.
\* sqlite3 opens no transaction for DDL, so each one is committed as it runs.
DropStatic ==
    /\ pc = "drop_static"
    /\ static_ap' = Absent
    /\ pc' = "create_static"
    /\ UNCHANGED <<ingest, run, prev_static, prev_mobile, observations, mobile_track, start_static, start_mobile, cfg,
                   err, obs, wins, stat_wins, mob_wins, static_rows,
                   mobile_rows, agg, agg_i, gm_x>>

CreateStatic ==
    /\ pc = "create_static"
    /\ static_ap' = IF static_ap.exists THEN static_ap ELSE Table({})
    /\ pc' = "drop_mobile"
    /\ UNCHANGED <<ingest, run, prev_static, prev_mobile, observations, mobile_track, start_static, start_mobile, cfg,
                   err, obs, wins, stat_wins, mob_wins, static_rows,
                   mobile_rows, agg, agg_i, gm_x>>

\* Variant: mobile_track is not dropped.
DropMobile_Skipped ==
    /\ pc = "drop_mobile"
    /\ pc' = "create_mobile"
    /\ UNCHANGED <<ingest, run, prev_static, prev_mobile, observations, static_ap,
                   mobile_track, start_static, start_mobile, cfg, err, obs,
                   wins, stat_wins, mob_wins, static_rows, mobile_rows, agg,
                   agg_i, gm_x>>

DropMobile ==
    /\ pc = "drop_mobile"
    /\ mobile_track' = Absent
    /\ pc' = "create_mobile"
    /\ UNCHANGED <<ingest, run, prev_static, prev_mobile, observations, static_ap, start_static, start_mobile, cfg,
                   err, obs, wins, stat_wins, mob_wins, static_rows,
                   mobile_rows, agg, agg_i, gm_x>>

CreateMobile ==
    /\ pc = "create_mobile"
    /\ mobile_track' = IF mobile_track.exists THEN mobile_track ELSE Table({})
    /\ pc' = "insert_static"
    /\ UNCHANGED <<ingest, run, prev_static, prev_mobile, observations, static_ap, start_static, start_mobile, cfg,
                   err, obs, wins, stat_wins, mob_wins, static_rows,
                   mobile_rows, agg, agg_i, gm_x>>

\* add_static_ap_bulk: one transaction, committed when the block ends.
InsertStatic ==
    /\ pc = "insert_static"
    /\ static_ap' = Table(UpsertStatic(static_ap.rows, static_rows))
    /\ pc' = "insert_mobile"
    /\ UNCHANGED <<ingest, run, prev_static, prev_mobile, observations, mobile_track, start_static, start_mobile, cfg,
                   err, obs, wins, stat_wins, mob_wins, static_rows,
                   mobile_rows, agg, agg_i, gm_x>>

\* add_mobile_track_bulk: one transaction, committed when the block ends.
InsertMobile ==
    /\ pc = "insert_mobile"
    /\ mobile_track' = Table(ReplaceMobile(mobile_track.rows, mobile_rows))
    /\ pc' = "done"
    /\ UNCHANGED <<ingest, run, prev_static, prev_mobile, observations, static_ap, start_static, start_mobile, cfg,
                   err, obs, wins, stat_wins, mob_wins, static_rows,
                   mobile_rows, agg, agg_i, gm_x>>

\* A fatal I/O error (sqlite3.Error) at a statement that touches the store:
\* the statement, or the open transaction of the block, is rolled back and
\* the exception leaves run().
IO_STEPS ==
    {"load", "drop_static", "create_static", "drop_mobile", "create_mobile",
     "insert_static", "insert_mobile"}

IOFail ==
    /\ pc \in IO_STEPS
    /\ err' = "io"
    /\ pc' = "failed"
    /\ UNCHANGED <<ingest, run, prev_static, prev_mobile, observations, static_ap, mobile_track, start_static,
                   start_mobile, cfg, obs, wins, stat_wins, mob_wins,
                   static_rows, mobile_rows, agg, agg_i, gm_x>>

Next ==
    \/ Load
    \/ Windowize
    \/ Split
    \/ AggregateCollapse
    \/ AggregateRaise
    \/ GMEnter
    \/ GMIterate
    \/ GMReturn
    \/ Decimate
    \/ DropStatic
    \/ CreateStatic
    \/ DropMobile
    \/ CreateMobile
    \/ InsertStatic
    \/ InsertMobile
    \/ IOFail

Spec == Init /\ [][Next]_vars

\* The runs under the presets and under a configuration of longer windows,
\* and the runs of the driving preset over the track with the glitch.
ConfigInit ==
    /\ \/ observations \in ConfigInputs /\ cfg \in ALL_CONFIGS
       \/ observations \in Perms(GLITCH_TRACK) /\ cfg = Driving
    /\ ingest = NoIngest
    /\ InitRun

ConfigSpec == ConfigInit /\ [][Next]_vars

\* run() is one thread that runs to completion: a step that can be taken
\* is taken.  The runs over at most MaxObsFair rows.
InitFair == Init /\ Len(observations) <= MaxObsFair

FairSpec == InitFair /\ [][Next]_vars /\ WF_vars(Next)

\* run() is called again on the store it has written; its locals are
\* assigned anew as the stages run.
Rerun ==
    /\ pc = "done"
    /\ run < MaxRuns
    /\ run' = run + 1
    /\ prev_static' = static_rows
    /\ prev_mobile' = mobile_rows
    /\ start_static' = static_ap
    /\ start_mobile' = mobile_track
    /\ pc' = "load"
    /\ UNCHANGED <<ingest, observations, static_ap, mobile_track, cfg, err, obs, wins,
                   stat_wins, mob_wins, static_rows, mobile_rows, agg, agg_i,
                   gm_x>>

NextRuns == Next \/ Rerun

TwoRuns == Init /\ [][NextRuns]_vars

----------------------------------------------------------------------------
(* cli.ingest *)

run_vars == <<observations, static_ap, mobile_track, start_static, start_mobile,
              cfg, pc, err, obs, wins, stat_wins, mob_wins, static_rows,
              mobile_rows, agg, agg_i, gm_x, run, prev_static, prev_mobile>>

\* The file the walk of ingest is at.
CurFile(g) == g.dir[g.i]

\* DAO.session_exists
session_exists(g, sha256) == \E s \in g.sessions : s.sha256 = sha256

\* The session row of id, with its times set to the bounds of its
\* observations (0 when it has none).
WithTimes(g, s) ==
    LET T == {o.ts : o \in {x \in g.observations : x.session_id = s.id}}
    IN  [s EXCEPT !.start_ts = IF T = {} THEN 0 ELSE MinOf(T),
                  !.end_ts   = IF T = {} THEN 0 ELSE MaxOf(T)]

\* ingest is called on a source directory; the store is empty before the
\* first call.
IngestInit ==
    /\ observations = <<>>
    /\ cfg = Driving
    /\ InitRun
    /\ \E d \in DIRS : ingest = [NoIngest EXCEPT !.pc = "recreate", !.dir = d, !.n = 1]

\* dao.recreate_drive_path_table(): DROP, CREATE, commit.
IngestRecreate ==
    /\ ingest.pc = "recreate"
    /\ ingest' = [ingest EXCEPT !.drive_path = {}, !.pc = "walk", !.i = 1]
    /\ UNCHANGED run_vars

\* The file has a session: continue.
IngestSkip ==
    /\ ingest.pc = "walk"
    /\ ingest.i <= Len(ingest.dir)
    /\ session_exists(ingest, _compute_sha256(CurFile(ingest)))
    /\ ingest' = [ingest EXCEPT !.i = @ + 1]
    /\ UNCHANGED run_vars

\* parse_kismet hands out the generators; add_session inserts the row and
\* commits.
IngestAddSession ==
    /\ ingest.pc = "walk"
    /\ ingest.i <= Len(ingest.dir)
    /\ ~session_exists(ingest, _compute_sha256(CurFile(ingest)))
    /\ ingest' = [ingest EXCEPT
                     !.sessions = @ \cup {[id       |-> <<ingest.n, ingest.i>>,
                                           src_file |-> CurFile(ingest),
                                           sha256   |-> _compute_sha256(CurFile(ingest)),
                                           start_ts |-> 0,
                                           end_ts   |-> 0]},
                     !.pc = "add_devices"]
    /\ UNCHANGED run_vars

\* add_devices_bulk: upsert on mac, one transaction.
IngestAddDevices ==
    /\ ingest.pc = "add_devices"
    /\ ingest' = [ingest EXCEPT !.devices = @ \cup DevicesOf(CurFile(ingest)),
                                !.pc = "add_observations"]
    /\ UNCHANGED run_vars

\* add_observations_bulk: plain inserts, one transaction.
IngestAddObservations ==
    /\ ingest.pc = "add_observations"
    /\ ingest' = [ingest EXCEPT
                     !.observations = @ \cup
                         {[session_id |-> <<ingest.n, ingest.i>>, mac |-> o.mac, ts |-> o.ts] :
                              o \in ObservationsOf(CurFile(ingest))},
                     !.pc = "add_paths"]
    /\ UNCHANGED run_vars

\* add_paths_bulk: INSERT OR IGNORE on the key ts, one transaction.
IngestAddPaths ==
    /\ ingest.pc = "add_paths"
    /\ ingest' = [ingest EXCEPT
                     !.drive_path = @ \cup
                         {p \in PathsOf(CurFile(ingest)) :
                              \A q \in ingest.drive_path : q.ts # p.ts},
                     !.paths_stored = @ \cup {_compute_sha256(CurFile(ingest))},
                     !.pc = "update_times"]
    /\ UNCHANGED run_vars

\* get_session_time_bounds and update_session_times; the loop goes on.
IngestUpdateTimes ==
    /\ ingest.pc = "update_times"
    /\ ingest' = [ingest EXCEPT
                     !.sessions = {IF s.id = <<ingest.n, ingest.i>>
                                   THEN WithTimes(ingest, s) ELSE s : s \in @},
                     !.i = @ + 1,
                     !.pc = "walk"]
    /\ UNCHANGED run_vars

\* The walk is over: ingest returns.
IngestReturn ==
    /\ ingest.pc = "walk"
    /\ ingest.i > Len(ingest.dir)
    /\ ingest' = [ingest EXCEPT !.pc = "returned"]
    /\ UNCHANGED run_vars

\* A generator or a statement of a bulk insert raises: the transaction of
\* the block is rolled back and the exception leaves ingest.
INGEST_BULK_STEPS == {"add_devices", "add_observations", "add_paths"}

IngestRaise ==
    /\ ingest.pc \in INGEST_BULK_STEPS
    /\ ingest' = [ingest EXCEPT !.pc = "raised"]
    /\ UNCHANGED run_vars

\* ingest is called again on the same directory.
IngestAgain ==
    /\ ingest.pc \in {"returned", "raised"}
    /\ ingest.n < MaxIngests
    /\ ingest' = [ingest EXCEPT
                     !.prev = [returned |-> ingest.pc = "returned",
                               tables   |-> RawTables(ingest)],
                     !.n = @ + 1,
                     !.i = 1,
                     !.pc = "recreate"]
    /\ UNCHANGED run_vars

IngestNext ==
    \/ IngestRecreate
    \/ IngestSkip
    \/ IngestAddSession
    \/ IngestAddDevices
    \/ IngestAddObservations
    \/ IngestAddPaths
    \/ IngestUpdateTimes
    \/ IngestReturn
    \/ IngestRaise
    \/ IngestAgain

IngestSpec == IngestInit /\ [][IngestNext]_vars

----------------------------------------------------------------------------
(* Properties *)

\* The stages of run() that have completed.
WindowizeDone == pc \notin {"load", "windowize"}
SplitDone == pc \notin {"load", "windowize", "split"}
AggregateDone ==
    /\ pc \notin {"load", "windowize", "split", "aggregate", "gm_start", "gm_loop"}
    /\ err \in {"none", "io"}
DecimateDone == AggregateDone /\ pc # "decimate"

\* The emitted track of one MAC, in output order.
TrackOf(mac) == SelectSeq(mobile_rows, LAMBDA r : r.mac = mac)

\* The indices of the later windows of the same MAC.
LaterWindows(k) == {j \in DOMAIN wins : j > k /\ wins[j].mac = wins[k].mac}

\* C1: within every window of _windowize consecutive points are less than
\* t_max_gap apart, and a window that is not the last of its MAC ends at
\* least t_max_gap before the first point of that MAC's next window.
C1_WindowGaps ==
    WindowizeDone =>
        \A k \in DOMAIN wins :
            LET pts == wins[k].points
            IN  /\ \A i \in 1..(Len(pts) - 1) :
                       pts[i + 1].ts - pts[i].ts < cfg.t_max_gap
                /\ LaterWindows(k) # {} =>
                       wins[MinOf(LaterWindows(k))].points[1].ts - pts[Len(pts)].ts
                           >= cfg.t_max_gap

\* A MAC split at a gap of exactly t_max_gap, its first window holding a
\* pair of points with a gap in between.
C1_Witness ==
    /\ WindowizeDone
    /\ \E k \in DOMAIN wins :
          /\ Len(wins[k].points) >= 2
          /\ wins[k].ts_end > wins[k].ts_start
          /\ LaterWindows(k) # {}
          /\ wins[MinOf(LaterWindows(k))].ts_start - wins[k].ts_end = cfg.t_max_gap

\* C2: a window is in the stationary output iff all its pairs of points are
\* at most r_stationary apart, and in the mobile output iff some pair is
\* further apart; a single-point window is stationary.
C2_SplitByDiameter ==
    SplitDone =>
        \A k \in DOMAIN wins :
            LET pts == wins[k].points
                within == \A i, j \in DOMAIN pts :
                              haversine(pts[i].lat, pts[j].lat) <= cfg.r_stationary
            IN  /\ wins[k] \in Range(stat_wins) <=> within
                /\ wins[k] \in Range(mob_wins) <=> ~within
                /\ Len(pts) = 1 => wins[k] \in Range(stat_wins)

\* A mobile window beside a single-point window.
C2_Witness ==
    /\ SplitDone
    /\ mob_wins # <<>>
    /\ \E k \in DOMAIN stat_wins : Len(stat_wins[k].points) = 1

\* C3: every MAC of the mobile output has at least 2 points, and its
\* consecutive points (p, q) have q.ts >= p.ts, are at least mobile_decim_d
\* or mobile_decim_t apart, and imply a speed of at most max_speed_ms.
C3_TrackPairs ==
    DecimateDone =>
        \A mac \in {mobile_rows[i].mac : i \in DOMAIN mobile_rows} :
            LET T == TrackOf(mac)
            IN  /\ Len(T) >= 2
                /\ \A i \in 1..(Len(T) - 1) :
                      LET dt == T[i + 1].ts - T[i].ts
                          d  == haversine(T[i].lat, T[i + 1].lat)
                      IN  /\ dt >= 0
                          /\ d >= cfg.mobile_decim_d \/ dt >= cfg.mobile_decim_t
                          /\ d * cfg.speed_den
                                 <= cfg.speed_num * (IF dt >= 1 THEN dt ELSE 1)

\* A track that left out a point for its speed.
C3_Witness ==
    /\ DecimateDone
    /\ \E k \in DOMAIN mob_wins :
          LET pts == MobilePoints(mob_wins, mob_wins[k].mac)
          IN  /\ Len(TrackOf(mob_wins[k].mac)) >= 2
              /\ Len(pts) > Len(TrackOf(mob_wins[k].mac))
              /\ \E i \in 2..Len(pts) : ~SpeedOk(cfg, pts[1], pts[i])

\* The points of pts at the indices E, as track points.
RECURSIVE PickFrom(_, _, _)
PickFrom(pts, E, i) ==
    IF i > Len(pts) THEN <<>>
    ELSE (IF i \in E THEN <<MobileTrackPoint(pts[i])>> ELSE <<>>)
             \o PickFrom(pts, E, i + 1)

\* The test of the walk, against the point p.
C4_Passes(p, q) ==
    LET dt == q.ts - p.ts
        d  == haversine(p.lat, q.lat)
    IN  /\ d >= cfg.mobile_decim_d \/ dt >= cfg.mobile_decim_t
        /\ d * cfg.speed_den <= cfg.speed_num * (IF dt >= 1 THEN dt ELSE 1)

\* E is the set of emitted indices of the walk over pts: the first, and
\* each later one that passes against the last emitted index before it.
C4_IsWalk(pts, E) ==
    /\ 1 \in E
    /\ \A i \in 2..Len(pts) :
          i \in E <=> C4_Passes(pts[MaxOf({j \in E : j < i})], pts[i])

\* C4: the walk over the ts-sorted mobile points of a MAC emits the first
\* point and then exactly the points that pass the keep-condition and the
\* speed gate against the last emitted point; a MAC in the output has
\* exactly the emitted points.
C4_WalkAgainstLastEmitted ==
    DecimateDone =>
        \A mac \in {mob_wins[k].mac : k \in DOMAIN mob_wins} :
            LET pts == MobilePoints(mob_wins, mac)
            IN  \E E \in SUBSET (1..Len(pts)) :
                    /\ C4_IsWalk(pts, E)
                    /\ TrackOf(mac) # <<>> => TrackOf(mac) = PickFrom(pts, E, 1)

\* A walk of three points: the second fails the speed gate against the
\* first, and the third is emitted although it would not pass against the
\* second.
C4_Witness ==
    /\ DecimateDone
    /\ \E k \in DOMAIN mob_wins :
          LET pts == MobilePoints(mob_wins, mob_wins[k].mac)
              T   == TrackOf(mob_wins[k].mac)
          IN  /\ Len(pts) = 3
              /\ ~C4_Passes(pts[1], pts[2])
              /\ ~C4_Passes(pts[2], pts[3])
              /\ T = <<MobileTrackPoint(pts[1]), MobileTrackPoint(pts[3])>>

StatWinsOf(mac) == {k \in DOMAIN stat_wins : stat_wins[k].mac = mac}

\* C6: in a static row first_seen is the least ts_start, last_seen the
\* greatest ts_end and n_obs the number of observations of the MAC's
\* stationary windows.
C6_CoverageAggregates ==
    \A i \in DOMAIN static_rows :
        LET r == static_rows[i]
            K == StatWinsOf(r.mac)
        IN  /\ K # {}
            /\ \E k \in K : r.first_seen = stat_wins[k].ts_start
            /\ \A k \in K : r.first_seen <= stat_wins[k].ts_start
            /\ \E k \in K : r.last_seen = stat_wins[k].ts_end
            /\ \A k \in K : r.last_seen >= stat_wins[k].ts_end
            /\ r.n_obs = Cardinality({<<k, j>> \in K \X (1..MaxObs) :
                                         j <= Len(stat_wins[k].points)})

\* A MAC with two stationary windows, of two observations and of one.
C6_Witness ==
    \E i \in DOMAIN static_rows :
        LET r == static_rows[i]
        IN  /\ Cardinality(StatWinsOf(r.mac)) = 2
            /\ r.n_obs = 3
            /\ r.first_seen < r.last_seen

\* C7: the static output has exactly one row for each MAC with a stationary
\* window and none for any other MAC, so the bulk insert meets no row with
\* the mac of the row it inserts.
C7_OneRowPerMac ==
    /\ AggregateDone =>
          /\ {static_rows[i].mac : i \in DOMAIN static_rows}
                 = {stat_wins[k].mac : k \in DOMAIN stat_wins}
          /\ \A i, j \in DOMAIN static_rows :
                 static_rows[i].mac = static_rows[j].mac => i = j
    /\ pc = "insert_static" =>
          \A i \in DOMAIN static_rows :
              \A r \in static_ap.rows : r.mac # static_rows[i].mac

\* The insert is reached with the rows of two MACs, one of them of two
\* stationary windows, and the store held a row of it at the start.
C7_Witness ==
    /\ pc = "insert_static"
    /\ Len(static_rows) = 2
    /\ \E i \in DOMAIN static_rows :
          /\ Cardinality(StatWinsOf(static_rows[i].mac)) = 2
          /\ \E r \in start_static.rows : r.mac = static_rows[i].mac

\* C8: the derived tables, as a reader of the store sees them at any point
\* of a run, are those of the start of the run or the complete new ones.
C8_AtomicReplace ==
    \/ static_ap = start_static /\ mobile_track = start_mobile
    \/ /\ DecimateDone
       /\ static_ap = Table(UpsertStatic({}, static_rows))
       /\ mobile_track = Table(ReplaceMobile({}, mobile_rows))

\* C9: a run ended by a fatal I/O error leaves both derived tables as they
\* were at the start of the run.
C9_FailureLeavesTables ==
    (pc = "failed" /\ err = "io") =>
        static_ap = start_static /\ mobile_track = start_mobile

\* C10: geometric_median returns for every MAC, so _aggregate_static
\* finishes.
C10_AggregateFinishes == <>(AggregateDone \/ pc = "failed")

\* The run has computed both outputs, or has ended by an exception of a
\* stage.
OutputsReady ==
    pc \in {"drop_static", "create_static", "drop_mobile", "create_mobile",
            "insert_static", "insert_mobile", "done"}
Raised == pc = "failed" /\ err \notin {"none", "io"}

\* What the run has produced.
RunResult ==
    [err    |-> err,
     static |-> IF Raised THEN <<>> ELSE static_rows,
     mobile |-> IF Raised THEN <<>> ELSE mobile_rows]

\* An observation without a malformed field.
WellFormed(o) == o.rssi \notin NULL_RSSIS

\* C11: when a loaded observation has a malformed field (a null rssi), run()
\* raises nothing but a fatal I/O error, and a run that completes has
\* written the artifacts of the remaining observations.
C11_IntegrityAbsorbed ==
    (pc # "load" /\ \E i \in DOMAIN obs : ~WellFormed(obs[i])) =>
        /\ err \in {"none", "io"}
        /\ pc = "done" =>
              LET r == Classify(cfg, SelectSeq(obs, WellFormed))
              IN  /\ static_ap = Table(Range(r.static))
                  /\ mobile_track = Table(Range(r.mobile))

\* A window whose weights are all 0.0.
ZeroWin(w) ==
    /\ FirstWeightError(w.points, 1) = "none"
    /\ \A i \in DOMAIN w.points : Weight(w.points[i].rssi).m = 0

\* The MACs whose stationary windows all have zero total weight.
ZeroMacs ==
    {stat_wins[k].mac : k \in DOMAIN stat_wins} \
        {stat_wins[k].mac : k \in {j \in DOMAIN stat_wins : ~ZeroWin(stat_wins[j])}}

\* C12: a MAC whose stationary windows have zero total weight raises no
\* exception and gets no static row, while the rows of the other MACs and the
\* mobile points are produced and written.
C12_ZeroWeightSkipped ==
    (/\ SplitDone
     /\ ZeroMacs # {}
     /\ \A k \in DOMAIN stat_wins : FirstWeightError(stat_wins[k].points, 1) = "none") =>
        LET others == SelectSeq(stat_wins, LAMBDA w : w.mac \notin ZeroMacs)
        IN  /\ err \in {"none", "io"}
            /\ OutputsReady =>
                  /\ static_rows = _aggregate_static(others).rows
                  /\ mobile_rows = _decimate_mobile(cfg, mob_wins)
            /\ pc = "done" =>
                  /\ static_ap = Table(Range(static_rows))
                  /\ mobile_track = Table(Range(mobile_rows))

C14_OrderIndependent ==
    /\ WindowizeDone =>
          \A i, j \in DOMAIN obs :
              (obs[i].mac = obs[j].mac /\ obs[i].ts = obs[j].ts) =>
                  \A k \in DOMAIN wins :
                      obs[i] \in Range(wins[k].points)
                          <=> obs[j] \in Range(wins[k].points)
    /\ (OutputsReady \/ Raised) =>
          \A p \in Perms(Range(obs)) :
              LET r == Classify(cfg, p)
              IN  /\ Range(r.static) = Range(RunResult.static)
                  /\ Range(r.mobile) = Range(RunResult.mobile)

\* The loaded rows of the MACs in M, in the order of the load.
OfMacs(o, M) == SelectSeq(o, LAMBDA p : p.mac \in M)

\* C15: for every split of the MACs in two groups, the static rows and the
\* mobile points of the run are the union of those obtained by classifying
\* the observations of each group alone.
C15_UnionIdentity ==
    (OutputsReady \/ Raised) =>
        \A M \in SUBSET MACS :
            LET x == Classify(cfg, OfMacs(obs, M))
                y == Classify(cfg, OfMacs(obs, MACS \ M))
            IN  /\ Range(RunResult.static) = Range(x.static) \cup Range(y.static)
                /\ Range(RunResult.mobile) = Range(x.mobile) \cup Range(y.mobile)

\* The constants added to every rssi: 10 dB keeps every weight of the
\* inputs in its class, 3050 dB takes an ordinary weight to 1e300.
DELTAS == {10, 3050}

\* The observation with d added to its rssi (a null rssi stays null).
Shift(o, d) == IF o.rssi \in NULL_RSSIS THEN o ELSE [o EXCEPT !.rssi = @ + d]

\* The mobile points and the static rows without regard to rssi.
C16_Same(r, d) ==
    LET q == Classify(cfg, [i \in DOMAIN obs |-> Shift(obs[i], d)])
    IN  /\ q.static = r.static
        /\ q.mobile = r.mobile

\* C16: adding one constant to the rssi of every observation leaves the
\* static rows and the mobile points as this run produced them.
C16_RssiOffsetInvariant ==
    (OutputsReady \/ Raised) => \A d \in DELTAS : C16_Same(RunResult, d)

\* C17: every window of the input is in exactly one of the two outputs of
\* _split_stationary, and the outputs hold nothing but the input windows,
\* once each and unaltered.
C17_SplitPartitions ==
    SplitDone =>
        /\ \A k \in DOMAIN wins :
               (wins[k] \in Range(stat_wins)) # (wins[k] \in Range(mob_wins))
        /\ Range(stat_wins) \cup Range(mob_wins) = Range(wins)
        /\ Len(stat_wins) + Len(mob_wins) = Len(wins)

\* Two windows, one to each side.
C17_Witness ==
    /\ SplitDone
    /\ Len(wins) = 2
    /\ Len(stat_wins) = 1
    /\ Len(mob_wins) = 1

\* The MACs with a mobile window.
MobileMacs == {mob_wins[k].mac : k \in DOMAIN mob_wins}

\* C18: a MAC is in the mobile output iff the decimated track over all its
\* mobile windows has at least 2 points, and then the output holds exactly
\* that track; a decimated track of 1 point gives no mobile point.
C18_Qualification ==
    DecimateDone =>
        /\ {mobile_rows[i].mac : i \in DOMAIN mobile_rows} \subseteq MobileMacs
        /\ \A mac \in MobileMacs :
               LET d == _decimate_track(cfg, MobilePoints(mob_wins, mac))
               IN  TrackOf(mac) = IF Len(d) >= 2 THEN d ELSE <<>>

\* A MAC with mobile windows whose decimated track has exactly 1 point.
C18_Witness ==
    /\ DecimateDone
    /\ \E mac \in MobileMacs :
          /\ Len(_decimate_track(cfg, MobilePoints(mob_wins, mac))) = 1
          /\ Len(MobilePoints(mob_wins, mac)) >= 2
          /\ TrackOf(mac) = <<>>

\* C19: every mobile point is the (mac, ts, lat, lon) of an observation in
\* a mobile window of its MAC, and the static row of a MAC is the row its
\* stationary windows alone give.
C19_NoMixing ==
    DecimateDone =>
        /\ \A i \in DOMAIN mobile_rows :
               \E k \in DOMAIN mob_wins :
                   \E j \in DOMAIN mob_wins[k].points :
                       MobileTrackPoint(mob_wins[k].points[j]) = mobile_rows[i]
        /\ \A i \in DOMAIN static_rows :
               LET own == SelectSeq(stat_wins,
                                    LAMBDA w : w.mac = static_rows[i].mac)
               IN  <<static_rows[i]>> = _aggregate_static(own).rows

\* A MAC with a static row and mobile points.
C19_Witness ==
    /\ DecimateDone
    /\ \E i \in DOMAIN static_rows :
          \E j \in DOMAIN mobile_rows : static_rows[i].mac = mobile_rows[j].mac

\* C20: when run() has completed, static_ap holds exactly the static rows
\* and mobile_track exactly the mobile points of this run.
C20_WholesaleRebuild ==
    pc = "done" =>
        /\ static_ap = Table(Range(static_rows))
        /\ mobile_track = Table(Range(mobile_rows))

\* A completed run over tables that held rows of other MACs than its own.
C20_Witness ==
    /\ pc = "done"
    /\ static_rows # <<>>
    /\ start_static.rows # {}
    /\ start_mobile.rows # {}
    /\ \A r \in start_static.rows : r \notin static_ap.rows
    /\ \A r \in start_mobile.rows : r \notin mobile_track.rows
    /\ \A r \in start_static.rows :
          \A i \in DOMAIN static_rows : static_rows[i].mac # r.mac

\* C29: a second ingest of an unchanged source directory skips every file
\* that has a session and leaves sessions, devices, observations and
\* drive_path as the ingest before it left them.
C29_IngestIdempotent ==
    (ingest.pc = "returned" /\ ingest.prev.returned) =>
        RawTables(ingest) = ingest.prev.tables

\* The records of the files with the digest sha256 are stored: the devices
\* and the observations are in their tables, the drive-path points were
\* inserted.
FullyStored(g, sha256) ==
    \A f \in Range(g.dir) :
        _compute_sha256(f) = sha256 =>
            /\ DevicesOf(f) \subseteq g.devices
            /\ \A o \in ObservationsOf(f) :
                   \E x \in g.observations : x.mac = o.mac /\ x.ts = o.ts
            /\ sha256 \in g.paths_stored

\* C30: a file that ingest skips because its sha256 has a session has its
\* devices, observations and drive-path points stored.
C30_SkipOnlyStored ==
    (/\ ingest.pc = "walk"
     /\ ingest.i <= Len(ingest.dir)
     /\ session_exists(ingest, _compute_sha256(CurFile(ingest)))) =>
        FullyStored(ingest, _compute_sha256(CurFile(ingest)))

\* C24: the loader returns each stored row with non-null lat and lon once
\* per distinct (mac, ts, lat, lon, rssi): no loaded row lacks a coordinate,
\* no two loaded rows are equal, and every stored row with both coordinates
\* is loaded.  Stated where the loader has just returned.
C24_LoaderFilter ==
    pc = "windowize" =>
        /\ \A i \in DOMAIN obs : HasCoords(obs[i])
        /\ \A i, j \in DOMAIN obs : obs[i] = obs[j] => i = j
        /\ Range(obs) = {r \in Range(observations) : HasCoords(r)}

\* Three stored rows, one without a coordinate and two the same, loaded as
\* one observation.
C24_Witness ==
    /\ pc = "windowize"
    /\ Len(observations) = 3
    /\ Len(obs) = 1
    /\ \E i \in DOMAIN observations : ~HasCoords(observations[i])
    /\ \E i, j \in DOMAIN observations :
          i # j /\ observations[i] = observations[j] /\ HasCoords(observations[i])

\* The positions run() may be at after a step from the position p.
NextStages(p) ==
    CASE p = "load"          -> {"windowize", "failed"}
      [] p = "windowize"     -> {"split"}
      [] p = "split"         -> {"aggregate"}
      [] p = "aggregate"     -> {"gm_start", "decimate", "failed"}
      [] p = "gm_start"      -> {"gm_loop"}
      [] p = "gm_loop"       -> {"gm_loop", "gm_start", "decimate"}
      [] p = "decimate"      -> {"drop_static"}
      [] p = "drop_static"   -> {"create_static", "failed"}
      [] p = "create_static" -> {"drop_mobile", "failed"}
      [] p = "drop_mobile"   -> {"create_mobile", "failed"}
      [] p = "create_mobile" -> {"insert_static", "failed"}
      [] p = "insert_static" -> {"insert_mobile", "failed"}
      [] p = "insert_mobile" -> {"done", "failed"}
      [] OTHER               -> {}

\* The stages before the writer.
BEFORE_WRITE ==
    {"load", "windowize", "split", "aggregate", "gm_start", "gm_loop", "decimate"}

\* Before the writer is entered, and after an exception of a stage, the
\* derived tables are those of the start of the run; the writer is entered
\* with the static rows of the stationary windows.
C21_TablesUntouched ==
    /\ (pc \in BEFORE_WRITE \/ Raised) =>
          static_ap = start_static /\ mobile_track = start_mobile
    /\ pc = "decimate" => static_rows = _aggregate_static(stat_wins).rows

\* A step of run(): the position moves to the next stage, the stage assigns
\* its result from the result of the stage before it, the observations are
\* not written, and a derived table changes in the writer only.
C21_StageStep ==
    /\ pc' \in NextStages(pc)
    /\ observations' = observations
    /\ pc = "load" => (pc' = "windowize" => obs' = _load_and_normalize(observations))
    /\ pc = "windowize" => wins' = _windowize(cfg, obs)
    /\ pc = "split" =>
          /\ stat_wins' = _split_stationary(cfg, wins).stat
          /\ mob_wins' = _split_stationary(cfg, wins).mob
    /\ pc = "aggregate" => (pc' # "failed" => agg' = Collapse(stat_wins))
    /\ pc = "decimate" => mobile_rows' = _decimate_mobile(cfg, mob_wins)
    /\ (static_ap' # static_ap \/ mobile_track' # mobile_track) =>
          /\ pc \notin BEFORE_WRITE
          /\ static_rows = _aggregate_static(stat_wins).rows
          /\ mobile_rows = _decimate_mobile(cfg, mob_wins)

\* C21: the stages of run() execute in the order load, windowize, split,
\* aggregate static, decimate mobile, write, each on the output of the stage
\* before it; the derived tables are first modified after both outputs are
\* computed, so an exception in the stages before the writer leaves them
\* unchanged.
C21_StagesInOrder == []C21_TablesUntouched /\ [][C21_StageStep]_vars

\* An exception of the aggregation with rows in both derived tables, and
\* the tables as they were.
C21_Witness ==
    /\ Raised
    /\ start_static.rows # {}
    /\ start_mobile.rows # {}
    /\ static_ap = start_static
    /\ mobile_track = start_mobile

\* The loaded observations of one MAC.
ObsOf(mac) == SelectSeq(obs, LAMBDA o : o.mac = mac)

\* The static row of a MAC seen once, at the observation o.
SingleRow(o) ==
    [mac         |-> o.mac,
     lat_mean    |-> o.lat,
     lon_mean    |-> o.lon,
     loc_error_m |-> 0,
     first_seen  |-> o.ts,
     last_seen   |-> o.ts,
     n_obs       |-> 1]

\* C22: a MAC with exactly one loaded observation gets exactly one window,
\* which is stationary, no exception leaves the stages, and the outputs hold
\* exactly one static row of the MAC, at the observation's position with
\* loc_error_m = 0, first_seen = last_seen = its ts and n_obs = 1, and no
\* mobile point of the MAC.
C22_SingleObservation ==
    \A mac \in MACS :
        Len(ObsOf(mac)) = 1 =>
            /\ WindowizeDone =>
                   SelectSeq(wins, LAMBDA w : w.mac = mac) = <<Win(mac, ObsOf(mac))>>
            /\ SplitDone =>
                   /\ SelectSeq(stat_wins, LAMBDA w : w.mac = mac) = <<Win(mac, ObsOf(mac))>>
                   /\ SelectSeq(mob_wins, LAMBDA w : w.mac = mac) = <<>>
            /\ ~Raised
            /\ OutputsReady =>
                   /\ SelectSeq(static_rows, LAMBDA r : r.mac = mac)
                          = <<SingleRow(ObsOf(mac)[1])>>
                   /\ TrackOf(mac) = <<>>

\* The observation of the track with the glitch at the time ts.
GlitchAt(ts) == CHOOSE o \in GLITCH_TRACK : o.ts = ts

\* C23: under the driving preset the four observations of the track with
\* the glitch form one window, which is mobile; the mobile output is exactly
\* the points of ts 0, 60 and 180, and there is no static row.
C23_GlitchDropped ==
    (cfg = Driving /\ pc # "load" /\ Range(obs) = GLITCH_TRACK) =>
        LET w == Win("AA", <<GlitchAt(0), GlitchAt(60), GlitchAt(120), GlitchAt(180)>>)
        IN  /\ WindowizeDone => wins = <<w>>
            /\ SplitDone => (stat_wins = <<>> /\ mob_wins = <<w>>)
            /\ ~Raised
            /\ OutputsReady =>
                   /\ static_rows = <<>>
                   /\ mobile_rows = <<MobileTrackPoint(GlitchAt(0)),
                                       MobileTrackPoint(GlitchAt(60)),
                                       MobileTrackPoint(GlitchAt(180))>>

\* The run over the track with the glitch has written its three points,
\* the point of ts 180 being about 67 m from the point of ts 60.
C23_Witness ==
    /\ cfg = Driving
    /\ pc = "done"
    /\ Range(obs) = GLITCH_TRACK
    /\ Cardinality(mobile_track.rows) = 3
    /\ static_ap = Table({})
    /\ haversine(GlitchAt(60).lat, GlitchAt(180).lat) \in 6600..6700
    /\ ~SpeedOk(cfg, GlitchAt(60), GlitchAt(120))
    /\ ~SpeedOk(cfg, GlitchAt(120), GlitchAt(180))

\* C25: every window of _windowize is non-empty, its points carry its mac
\* and are in non-decreasing ts order, ts_start is the ts of the first point
\* and the least one, ts_end the ts of the last point and the greatest one.
C25_WindowWellFormed ==
    WindowizeDone =>
        \A k \in DOMAIN wins :
            LET pts == wins[k].points
            IN  /\ pts # <<>>
                /\ \A i \in DOMAIN pts : pts[i].mac = wins[k].mac
                /\ \A i \in 1..(Len(pts) - 1) : pts[i].ts <= pts[i + 1].ts
                /\ wins[k].ts_start = pts[1].ts
                /\ wins[k].ts_end = pts[Len(pts)].ts
                /\ \A i \in DOMAIN pts :
                       wins[k].ts_start <= pts[i].ts /\ pts[i].ts <= wins[k].ts_end
                /\ wins[k].ts_start <= wins[k].ts_end

\* A window of three points that the scan returned latest first, two of
\* them at the same time.
C25_Witness ==
    /\ WindowizeDone
    /\ Len(obs) = 3
    /\ obs[1].ts > obs[2].ts
    /\ obs[2].ts = obs[3].ts
    /\ \E k \in DOMAIN wins :
          /\ Len(wins[k].points) = 3
          /\ wins[k].ts_start < wins[k].ts_end

\* The places of the windows: window k, point j.
WinPlaces == {<<k, j>> \in (DOMAIN wins) \X (1..Len(obs)) : j <= Len(wins[k].points)}

\* The times ts of the MAC of o between which its list is cut: u and v are
\* neighbours among the times of the MAC and at least t_max_gap apart.
CutBetween(o, p) ==
    LET T  == {q.ts : q \in {x \in Range(obs) : x.mac = o.mac}}
        lo == IF o.ts <= p.ts THEN o.ts ELSE p.ts
        hi == IF o.ts <= p.ts THEN p.ts ELSE o.ts
    IN  \E u, v \in T :
            /\ lo <= u /\ u < v /\ v <= hi
            /\ \A t \in T : ~(u < t /\ t < v)
            /\ v - u >= cfg.t_max_gap

\* The observations that share a window with o before any window is left
\* out.
Cluster(o) == {p \in Range(obs) : p.mac = o.mac /\ ~CutBetween(o, p)}

\* C26: every point of a window is a loaded observation of the window's MAC,
\* no observation is at two places, and an observation is in a window iff
\* its run of observations less than t_max_gap apart has at least
\* min_window_len members; with min_window_len <= 1 that is every
\* observation, so the windows hold as many points as were loaded.
C26_Conservation ==
    WindowizeDone =>
        /\ \A x \in WinPlaces :
               /\ wins[x[1]].points[x[2]] \in Range(obs)
               /\ wins[x[1]].points[x[2]].mac = wins[x[1]].mac
        /\ \A i \in DOMAIN obs :
               LET at == {x \in WinPlaces : wins[x[1]].points[x[2]] = obs[i]}
               IN  /\ Cardinality(at) <= 1
                   /\ at # {} <=> Cardinality(Cluster(obs[i])) >= cfg.min_window_len
        /\ cfg.min_window_len <= 1 => Cardinality(WinPlaces) = Len(obs)

\* With min_window_len = 2, a window of two observations is kept and the
\* third observation of the MAC, alone after a gap, is in no window.
C26_Witness ==
    /\ WindowizeDone
    /\ cfg.min_window_len = 2
    /\ Len(obs) = 3
    /\ Len(wins) = 1
    /\ Len(wins[1].points) = 2
    /\ \A i \in DOMAIN obs : obs[i].mac = wins[1].mac

\* mobile_decim_t > 0 and mobile_decim_d > max_speed_ms.
C27_Config(c) ==
    /\ c.mobile_decim_t > 0
    /\ c.mobile_decim_d * c.speed_den > c.speed_num

\* C27: under a configuration with mobile_decim_t > 0 and mobile_decim_d >
\* max_speed_ms the emitted points of a MAC have strictly increasing ts; so
\* the bulk insert meets no row, in the table or among its own, with the key
\* (mac, ts) of the row it inserts, and every MAC of the written table has
\* one row per emitted point, at least 2.
C27_StrictTimes ==
    C27_Config(cfg) =>
        /\ DecimateDone =>
               \A mac \in MACS :
                   \A i \in 1..(Len(TrackOf(mac)) - 1) :
                       TrackOf(mac)[i].ts < TrackOf(mac)[i + 1].ts
        /\ pc = "insert_mobile" =>
               /\ \A i \in DOMAIN mobile_rows :
                      \A r \in mobile_track.rows :
                          ~(r.mac = mobile_rows[i].mac /\ r.ts = mobile_rows[i].ts)
               /\ \A i, j \in DOMAIN mobile_rows :
                      (/\ mobile_rows[i].mac = mobile_rows[j].mac
                       /\ mobile_rows[i].ts = mobile_rows[j].ts) => i = j
        /\ pc = "done" =>
               \A mac \in {r.mac : r \in mobile_track.rows} :
                   LET n == Cardinality({r \in mobile_track.rows : r.mac = mac})
                   IN  n = Len(TrackOf(mac)) /\ n >= 2

\* Under the walking preset a track of two rows is written for a MAC seen
\* twice at one time, 100 m apart: the second of the two was not emitted.
C27_Witness ==
    /\ cfg = Walking
    /\ pc = "done"
    /\ start_mobile.rows # {}
    /\ \E mac \in MACS :
          /\ Cardinality({r \in mobile_track.rows : r.mac = mac}) = 2
          /\ \E i, j \in DOMAIN obs :
                 /\ obs[i].mac = mac /\ obs[j].mac = mac
                 /\ i # j
                 /\ obs[i].ts = obs[j].ts
                 /\ haversine(obs[i].lat, obs[j].lat) >= cfg.mobile_decim_d

\* C28: when the loader has returned no observation, no stage raises, every
\* stage yields an empty result, and the run that completes leaves static_ap
\* and mobile_track existing and empty, whatever they held before.
C28_EmptyInput ==
    (pc # "load" /\ obs = <<>>) =>
        /\ ~Raised
        /\ wins = <<>>
        /\ stat_wins = <<>>
        /\ mob_wins = <<>>
        /\ static_rows = <<>>
        /\ mobile_rows = <<>>
        /\ pc \notin {"gm_start", "gm_loop"}
        /\ pc = "done" => (static_ap = Table({}) /\ mobile_track = Table({}))

\* A completed run over a table whose rows all lack a coordinate, on a
\* store that held rows in both derived tables.
C28_Witness ==
    /\ pc = "done"
    /\ obs = <<>>
    /\ Len(observations) >= 2
    /\ start_static.rows # {}
    /\ start_mobile.rows # {}
    /\ static_ap = Table({})
    /\ mobile_track = Table({})
====
